---- MODULE Spec2Model ----
(***************************************************************************)
(* A model of csv_processor.py: the filter operators, the aggregation      *)
(* functions, CSVProcessor.filter_data / aggregate_data, the two grammar   *)
(* parsers and the control flow of main.                                   *)
(*                                                                         *)
(* Python strings are modelled as sequences of one-character strings, so   *)
(* that split, strip, lower and float act on characters as the built-ins   *)
(* do.  A call either returns a value or raises: Return(v) / Raise(e, m).  *)
(***************************************************************************)
EXTENDS Integers, Sequences, FiniteSets, TLC

VARIABLES
    pc,           \* position of the running call / of main
    data,         \* the dataset (list of rows) the call or main works on
    call,         \* the arguments of the call under way (or main's argv)
    outcome,      \* what the call returned or raised
    stdout,       \* what main printed to the output stream
    stderr,       \* what main printed to the error stream
    exit_status,  \* the exit status of the process: empty until main has ended
    calls         \* the engine calls main has made so far

vars == <<pc, data, call, outcome, stdout, stderr, exit_status, calls>>

\* ---------------------------------------------------------------- bounds
\* longest operand string handed to an operator in SpecOperators
MaxStrLen == 2
\* most rows of a dataset
MaxRows == 3
\* longest string handed to the parsers in SpecParse
MaxLen == 6
\* most rows of the source file main reads in SpecMain
MaxFileRows == 2

\* ------------------------------------------------------ values, outcomes
\* Python's None.  A one-element sequence whose element is no character, so
\* that it is comparable with (and different from) every string.
None == <<"NoneType">>

NoCall == [fn |-> "none"]

Return(v) == [kind |-> "return", value |-> v]

Raise(e, m) == [kind |-> "raise", exc |-> e, msg |-> m]

\* --------------------------------------------------------- str built-ins
Whitespace == {" ", "\t", "\n"}

UpperLetters ==
    <<"A","B","C","D","E","F","G","H","I","J","K","L","M",
      "N","O","P","Q","R","S","T","U","V","W","X","Y","Z">>

LowerLetters ==
    <<"a","b","c","d","e","f","g","h","i","j","k","l","m",
      "n","o","p","q","r","s","t","u","v","w","x","y","z">>

LowerChar(c) ==
    IF \E i \in 1..26 : UpperLetters[i] = c
    THEN LowerLetters[CHOOSE i \in 1..26 : UpperLetters[i] = c]
    ELSE c

\* str.lower()
Lower(s) == IF s = <<>> THEN <<>> ELSE [i \in 1..Len(s) |-> LowerChar(s[i])]

RECURSIVE LStrip(_)
LStrip(s) ==
    IF s = <<>> THEN s
    ELSE IF Head(s) \in Whitespace THEN LStrip(Tail(s)) ELSE s

RECURSIVE RStrip(_)
RStrip(s) ==
    IF s = <<>> THEN s
    ELSE IF s[Len(s)] \in Whitespace THEN RStrip(SubSeq(s, 1, Len(s) - 1)) ELSE s

\* str.strip()
Strip(s) == RStrip(LStrip(s))

\* str.split(sep) for a one-character separator: always at least one segment
RECURSIVE Split(_, _)
Split(s, sep) ==
    IF \A i \in 1..Len(s) : s[i] # sep
    THEN <<s>>
    ELSE LET i == CHOOSE k \in 1..Len(s) :
                      s[k] = sep /\ \A j \in 1..(k - 1) : s[j] # sep
         IN  <<SubSeq(s, 1, i - 1)>> \o Split(SubSeq(s, i + 1, Len(s)), sep)

\* str(value): a string is itself, None is 'None'
Str(v) == IF v = None THEN <<"N","o","n","e">> ELSE v

\* ------------------------------------------------------------- float()
Digits == <<"0","1","2","3","4","5","6","7","8","9">>

IsDigit(c) == \E i \in 1..10 : Digits[i] = c

DigitVal(c) == (CHOOSE i \in 1..10 : Digits[i] = c) - 1

RECURSIVE DecVal(_)
DecVal(s) ==
    IF s = <<>> THEN 0
    ELSE 10 * DecVal(SubSeq(s, 1, Len(s) - 1)) + DigitVal(s[Len(s)])

\* float(v) on None and on strings of digits, signs, blanks and letters that
\* spell no float literal (no '.', 'e', 'inf', 'nan', '_'): surrounding
\* whitespace is dropped, one optional sign, then at least one digit.
\* None raises TypeError, every other failure ValueError.
Float(v) ==
    IF v = None THEN Raise("TypeError", "float")
    ELSE LET s    == Strip(v)
             neg  == s # <<>> /\ Head(s) = "-"
             body == IF s # <<>> /\ Head(s) \in {"+", "-"} THEN Tail(s) ELSE s
         IN  IF body = <<>> \/ \E i \in 1..Len(body) : ~IsDigit(body[i])
             THEN Raise("ValueError", "float")
             ELSE Return(IF neg THEN 0 - DecVal(body) ELSE DecVal(body))

\* ----------------------------------------------------- filter operators
EqualsOperator_apply(value, target) ==
    Return(Lower(Str(value)) = Lower(Str(target)))

\* GreaterOperator.apply comparing with >= instead of >
GreaterOperator_nonstrict(value, target) ==
    LET fv == Float(value)
        ft == Float(target)
    IN  IF fv.kind = "raise"
        THEN IF fv.exc \in {"ValueError", "TypeError"} THEN Return(FALSE) ELSE fv
        ELSE IF ft.kind = "raise"
        THEN IF ft.exc \in {"ValueError", "TypeError"} THEN Return(FALSE) ELSE ft
        ELSE Return(fv.value >= ft.value)

GreaterOperator_apply(value, target) ==
    LET fv == Float(value)
        ft == Float(target)
    IN  IF fv.kind = "raise"
        THEN IF fv.exc \in {"ValueError", "TypeError"} THEN Return(FALSE) ELSE fv
        ELSE IF ft.kind = "raise"
        THEN IF ft.exc \in {"ValueError", "TypeError"} THEN Return(FALSE) ELSE ft
        ELSE Return(fv.value > ft.value)

LessOperator_apply(value, target) ==
    LET fv == Float(value)
        ft == Float(target)
    IN  IF fv.kind = "raise"
        THEN IF fv.exc \in {"ValueError", "TypeError"} THEN Return(FALSE) ELSE fv
        ELSE IF ft.kind = "raise"
        THEN IF ft.exc \in {"ValueError", "TypeError"} THEN Return(FALSE) ELSE ft
        ELSE Return(fv.value < ft.value)

EQ == <<"e","q">>

GT == <<"g","t">>

LT == <<"l","t">>

\* CSVProcessor.operators: the registered operator tokens
operators == {EQ, GT, LT}

\* self.operators[operator].apply(value, target)
Apply(operator, value, target) ==
    CASE operator = EQ -> EqualsOperator_apply(value, target)
      [] operator = GT -> GreaterOperator_apply(value, target)
      [] operator = LT -> LessOperator_apply(value, target)

\* ------------------------------------------------- aggregation functions
RECURSIVE GCD(_, _)
GCD(a, b) == IF b = 0 THEN a ELSE GCD(b, a % b)

Abs(n) == IF n < 0 THEN 0 - n ELSE n

\* the number n/d (d > 0) in lowest terms: equal numbers are equal records
Rat(n, d) ==
    LET g == GCD(Abs(n), d)
    IN  [num |-> n \div g, den |-> d \div g]

\* the float 0.0
Zero == Rat(0, 1)

RECURSIVE Sum(_)
Sum(values) == IF values = <<>> THEN 0 ELSE Head(values) + Sum(Tail(values))

AverageFunction_calculate(values) ==
    IF values = <<>> THEN Zero ELSE Rat(Sum(values), Len(values))

MinFunction_calculate(values) ==
    IF values = <<>> THEN Zero
    ELSE Rat(CHOOSE m \in {values[i] : i \in 1..Len(values)} :
                 \A i \in 1..Len(values) : m <= values[i], 1)

MaxFunction_calculate(values) ==
    IF values = <<>> THEN Zero
    ELSE Rat(CHOOSE m \in {values[i] : i \in 1..Len(values)} :
                 \A i \in 1..Len(values) : m >= values[i], 1)

AVG == <<"a","v","g">>

MIN == <<"m","i","n">>

MAX == <<"m","a","x">>

\* CSVProcessor.aggregation_functions: the registered function tokens
aggregation_functions == {AVG, MIN, MAX}

\* self.aggregation_functions[function].calculate(values)
Calculate(function, values) ==
    CASE function = AVG -> AverageFunction_calculate(values)
      [] function = MIN -> MinFunction_calculate(values)
      [] function = MAX -> MaxFunction_calculate(values)

\* ------------------------------------------------------------- datasets
\* The rows csv.DictReader yields: every row has the header's columns; a
\* row shorter than the header has None in its last columns.
BRAND == <<"b">>

PRICE == <<"p">>

RATING == <<"r">>

\* the header of the source
Columns == {BRAND, PRICE}

BrandCells == {<<"a">>, <<"A">>}

PriceCells == {<<"1">>, <<" ", "2">>, <<"-", "1">>, <<"x">>, None}

Rows == {r \in [Columns -> BrandCells \cup PriceCells] :
             r[BRAND] \in BrandCells /\ r[PRICE] \in PriceCells}

RECURSIVE SeqsUpTo(_, _)
\* the sequences over S of length at most n
SeqsUpTo(S, n) ==
    IF n = 0 THEN {<<>>}
    ELSE LET shorter == SeqsUpTo(S, n - 1)
         IN  shorter \cup {Append(q, x) : q \in {t \in shorter : Len(t) = n - 1}, x \in S}

Datasets == SeqsUpTo(Rows, MaxRows)

\* ---------------------------------------------------------- filter_data
RECURSIVE FilterLoop_prepend(_, _, _, _, _, _)
\* the loop of filter_data putting each matching row in front
FilterLoop_prepend(d, column, operator, value, i, filtered_data) ==
    IF i > Len(d) THEN Return(filtered_data)
    ELSE LET r == Apply(operator, d[i][column], value)
         IN  IF r.kind = "raise" THEN r
             ELSE FilterLoop_prepend(d, column, operator, value, i + 1,
                                     IF r.value THEN <<d[i]>> \o filtered_data
                                     ELSE filtered_data)

RECURSIVE FilterLoop(_, _, _, _, _, _)
\* the for loop of filter_data from row i on, filtered_data so far
FilterLoop(d, column, operator, value, i, filtered_data) ==
    IF i > Len(d) THEN Return(filtered_data)
    ELSE LET r == Apply(operator, d[i][column], value)
         IN  IF r.kind = "raise" THEN r
             ELSE FilterLoop(d, column, operator, value, i + 1,
                             IF r.value THEN Append(filtered_data, d[i])
                             ELSE filtered_data)

filter_data(d, column, operator, value) ==
    IF d = <<>> THEN Raise("IndexError", "list index out of range")
    ELSE IF column \notin DOMAIN d[1] THEN Raise("ValueError", "unknown column")
    ELSE IF operator \notin operators THEN Raise("ValueError", "unsupported operator")
    ELSE FilterLoop(d, column, operator, value, 1, <<>>)

\* ------------------------------------------------------- aggregate_data
RECURSIVE NumericLoop_zero_fill(_, _, _, _)
\* the loop of aggregate_data counting a cell that is no number as 0
NumericLoop_zero_fill(d, column, i, numeric_values) ==
    IF i > Len(d) THEN Return(numeric_values)
    ELSE LET f == Float(d[i][column])
         IN  NumericLoop_zero_fill(d, column, i + 1,
                 Append(numeric_values, IF f.kind = "raise" THEN 0 ELSE f.value))

RECURSIVE NumericLoop(_, _, _, _)
\* the for loop of aggregate_data from row i on, numeric_values so far
NumericLoop(d, column, i, numeric_values) ==
    IF i > Len(d) THEN Return(numeric_values)
    ELSE LET f == Float(d[i][column])
         IN  IF f.kind = "raise"
             THEN IF f.exc \in {"ValueError", "TypeError"}
                  THEN NumericLoop(d, column, i + 1, numeric_values)
                  ELSE f
             ELSE NumericLoop(d, column, i + 1, Append(numeric_values, f.value))

\* aggregate_data without its check for an empty dataset
aggregate_data_no_empty_check(d, column, function) ==
    IF d = <<>> THEN Raise("IndexError", "list index out of range")
    ELSE IF column \notin DOMAIN d[1] THEN Raise("ValueError", "unknown column")
    ELSE IF function \notin aggregation_functions
    THEN Raise("ValueError", "unsupported function")
    ELSE LET n == NumericLoop(d, column, 1, <<>>)
         IN  IF n.kind = "raise" THEN n
             ELSE IF n.value = <<>> THEN Raise("ValueError", "no numeric values")
             ELSE Return(Calculate(function, n.value))

\* aggregate_data looking at the function token first
aggregate_data_function_first(d, column, function) ==
    IF function \notin aggregation_functions
    THEN Raise("ValueError", "unsupported function")
    ELSE IF d = <<>> THEN Return(Zero)
    ELSE IF column \notin DOMAIN d[1] THEN Raise("ValueError", "unknown column")
    ELSE LET n == NumericLoop(d, column, 1, <<>>)
         IN  IF n.kind = "raise" THEN n
             ELSE IF n.value = <<>> THEN Raise("ValueError", "no numeric values")
             ELSE Return(Calculate(function, n.value))

aggregate_data(d, column, function) ==
    IF d = <<>> THEN Return(Zero)
    ELSE IF column \notin DOMAIN d[1] THEN Raise("ValueError", "unknown column")
    ELSE IF function \notin aggregation_functions
    THEN Raise("ValueError", "unsupported function")
    ELSE LET n == NumericLoop(d, column, 1, <<>>)
         IN  IF n.kind = "raise" THEN n
             ELSE IF n.value = <<>> THEN Raise("ValueError", "no numeric values")
             ELSE Return(Calculate(function, n.value))

\* ------------------------------------------- calls of the engine, alone
\* the column names a caller may pass: two of the header, one of no header
ColumnArgs == {BRAND, PRICE, RATING}

\* the operator tokens a caller may pass: the registered ones and another
OperatorArgs == operators \cup {<<"n","e">>}

\* the function tokens a caller may pass: the registered ones and another
FunctionArgs == aggregation_functions \cup {<<"s","u","m">>}

\* the target strings a caller may pass
TargetArgs == {<<"a">>, <<"1">>, <<"2">>}

\* the characters of the operands handed to an operator on its own
OperandChars == {"1", "2", "-", " ", "a", "A"}

\* the operands: the strings of at most MaxStrLen characters, and None
Operands == SeqsUpTo(OperandChars, MaxStrLen) \cup {None}

\* either a dataset waits for a call of the engine, or a pair of operands
\* waits for an operator
InitEngine ==
    /\ \/ /\ pc = "ready"
          /\ data \in Datasets
          /\ call = NoCall
       \/ /\ pc = "operands"
          /\ data = <<>>
          /\ call \in [fn : {"operands"}, value : Operands, target : Operands]
    /\ outcome = None
    /\ stdout = <<>>
    /\ stderr = <<>>
    /\ exit_status = {}
    /\ calls = <<>>

CallFilterData ==
    /\ pc = "ready"
    /\ \E column \in ColumnArgs, operator \in OperatorArgs, value \in TargetArgs :
          /\ call' = [fn |-> "filter_data", column |-> column,
                      operator |-> operator, value |-> value]
          /\ outcome' = filter_data(data, column, operator, value)
    /\ pc' = "returned"
    /\ UNCHANGED <<data, stdout, stderr, exit_status, calls>>

CallAggregateData ==
    /\ pc = "ready"
    /\ \E column \in ColumnArgs, function \in FunctionArgs :
          /\ call' = [fn |-> "aggregate_data", column |-> column,
                      function |-> function]
          /\ outcome' = aggregate_data(data, column, function)
    /\ pc' = "returned"
    /\ UNCHANGED <<data, stdout, stderr, exit_status, calls>>

CallApply ==
    /\ pc = "operands"
    /\ \E operator \in operators :
          /\ call' = [fn |-> "apply", operator |-> operator,
                      value |-> call.value, target |-> call.target]
          /\ outcome' = Apply(operator, call.value, call.target)
    /\ pc' = "returned"
    /\ UNCHANGED <<data, stdout, stderr, exit_status, calls>>

NextEngine == CallFilterData \/ CallAggregateData \/ CallApply

SpecEngine == InitEngine /\ [][NextEngine]_vars

\* ------------------------------------------------ claims on the engine
FilterReturned == pc = "returned" /\ call.fn = "filter_data"

AggregateReturned == pc = "returned" /\ call.fn = "aggregate_data"

ApplyReturned == pc = "returned" /\ call.fn = "apply"

\* the rows of the dataset the operator of the call accepts
Matching ==
    {i \in 1..Len(data) :
        Apply(call.operator, data[i][call.column], call.value) = Return(TRUE)}

\* C1: on a non-empty dataset, with a column of the first row and a
\* registered operator, filter_data returns exactly the rows the operator
\* accepts, each once and in the order of the input.
C1_FilterIsTheMatchingSubsequence ==
    (FilterReturned /\ data # <<>> /\ call.column \in DOMAIN data[1]
                    /\ call.operator \in operators)
    => /\ outcome.kind = "return"
       /\ Len(outcome.value) = Cardinality(Matching)
       /\ \E f \in [1..Len(outcome.value) -> Matching] :
             /\ \A j, k \in 1..Len(outcome.value) : j < k => f[j] < f[k]
             /\ \A k \in 1..Len(outcome.value) : outcome.value[k] = data[f[k]]

\* C1 witness: of three rows the first and the last, which differ, are kept
\* and the middle one is dropped.
C1_Witness ==
    /\ FilterReturned /\ Len(data) = 3
    /\ call.column \in DOMAIN data[1] /\ call.operator \in operators
    /\ Matching = {1, 3}
    /\ data[1] # data[3]
    /\ outcome = Return(<<data[1], data[3]>>)

\* C2: aggregate_data on an empty dataset returns 0.0 whatever the column
\* and the function token are.
C2_AggregateEmptyIsZero ==
    (AggregateReturned /\ data = <<>>) => outcome = Return(Zero)

\* C2 witness: the empty dataset, a column of no header and an unregistered
\* function token.
C2_Witness ==
    /\ AggregateReturned /\ data = <<>>
    /\ call.column = RATING /\ call.function \notin aggregation_functions
    /\ outcome = Return(Zero)

\* C3: filter_data on an empty dataset raises nothing and returns an empty
\* result, whatever the column is.
C3_FilterEmptyReturnsEmpty ==
    (FilterReturned /\ data = <<>> /\ call.operator \in operators)
    => outcome = Return(<<>>)

\* C6: on a non-empty dataset aggregate_data reports the first failing check:
\* unknown column, then unsupported function, and the no-numeric-data error
\* only when both are valid.
C6_AggregateCheckOrder ==
    (AggregateReturned /\ data # <<>>)
    => /\ call.column \notin DOMAIN data[1]
             => outcome = Raise("ValueError", "unknown column")
       /\ (call.column \in DOMAIN data[1]
             /\ call.function \notin aggregation_functions)
             => outcome = Raise("ValueError", "unsupported function")
       /\ outcome = Raise("ValueError", "no numeric values")
             => (call.column \in DOMAIN data[1]
                    /\ call.function \in aggregation_functions)

\* C6 witness: a column without any number and an unregistered function
\* token give the unsupported-function error.
C6_Witness ==
    /\ AggregateReturned /\ data # <<>>
    /\ call.column = BRAND /\ call.function \notin aggregation_functions
    /\ \A i \in 1..Len(data) : Float(data[i][BRAND]).kind = "raise"
    /\ outcome = Raise("ValueError", "unsupported function")

\* the rows whose cell in the column of the call parses as a number
Numeric == {i \in 1..Len(data) : Float(data[i][call.column]).kind = "return"}

NumberAt(i) == Float(data[i][call.column]).value

RECURSIVE SumOver(_)
SumOver(I) ==
    IF I = {} THEN 0
    ELSE LET i == CHOOSE k \in I : TRUE IN NumberAt(i) + SumOver(I \ {i})

\* C7: with a non-empty dataset, a column of the first row and a registered
\* function, aggregate_data raises the no-numeric-data error exactly when
\* no cell parses; otherwise it returns the mean, minimum or maximum of
\* exactly the cells that parse.
C7_AggregateOverParsedValues ==
    (AggregateReturned /\ data # <<>> /\ call.column \in DOMAIN data[1]
                       /\ call.function \in aggregation_functions)
    => /\ (outcome = Raise("ValueError", "no numeric values")) <=> (Numeric = {})
       /\ Numeric # {}
            => /\ outcome.kind = "return"
               /\ outcome.value.den > 0
               /\ call.function = AVG
                    => outcome.value.num * Cardinality(Numeric)
                          = SumOver(Numeric) * outcome.value.den
               /\ call.function = MIN
                    => /\ outcome.value.den = 1
                       /\ \E i \in Numeric : NumberAt(i) = outcome.value.num
                       /\ \A i \in Numeric : outcome.value.num <= NumberAt(i)
               /\ call.function = MAX
                    => /\ outcome.value.den = 1
                       /\ \E i \in Numeric : NumberAt(i) = outcome.value.num
                       /\ \A i \in Numeric : outcome.value.num >= NumberAt(i)

\* C7 witness: the mean of 1 and 2 with a cell that is no number between
\* them is 3/2.
C7_Witness ==
    /\ AggregateReturned /\ Len(data) = 3 /\ call.column = PRICE
    /\ call.function = AVG
    /\ Numeric = {1, 3}
    /\ outcome = Return([num |-> 3, den |-> 2])

\* C8: GreaterOperator.apply and LessOperator.apply never raise; they return
\* false when an operand does not parse as a number and the strict
\* comparison of the two numbers when both parse.  So filter_data with gt or
\* lt returns, and keeps no row whose cell does not parse.
C8_ComparisonsNeverRaise ==
    /\ (ApplyReturned /\ call.operator \in {GT, LT})
       => LET fv == Float(call.value)
              ft == Float(call.target)
          IN  /\ outcome.kind = "return"
              /\ (fv.kind = "raise" \/ ft.kind = "raise") => outcome.value = FALSE
              /\ (fv.kind = "return" /\ ft.kind = "return")
                   => outcome.value = IF call.operator = GT
                                      THEN fv.value > ft.value
                                      ELSE fv.value < ft.value
    /\ (FilterReturned /\ data # <<>> /\ call.column \in DOMAIN data[1]
                       /\ call.operator \in {GT, LT})
       => /\ outcome.kind = "return"
          /\ \A k \in 1..Len(outcome.value) :
                Float(outcome.value[k][call.column]).kind = "return"

\* C8 witness: two operands that parse to the same number, written
\* differently, compared with gt: false.
C8_Witness ==
    /\ ApplyReturned /\ call.operator = GT
    /\ call.value = <<" ", "1">> /\ call.target = <<"1">>
    /\ outcome = Return(FALSE)

\* ---------------------------------------------------------- the parsers
\* the keys of operator_map in parse_filter
OperatorTokens ==
    {<<"=","=">>, EQ, <<">">>, GT, <<">","=">>, <<"<">>, LT, <<"<","=">>}

\* operator_map in parse_filter
operator_map ==
    [t \in OperatorTokens |->
        CASE t \in {<<"=","=">>, EQ} -> EQ
          [] t \in {<<">">>, GT, <<">","=">>} -> GT
          [] t \in {<<"<">>, LT, <<"<","=">>} -> LT]

\* "if not s" for an argument that is a string or None
Falsy(s) == s = None \/ s = <<>>

\* parse_filter stripping the operator segment as it strips the other two
parse_filter_strips_operator(filter_str) ==
    IF Falsy(filter_str) THEN Return(<<None, None, None>>)
    ELSE LET parts == Split(filter_str, "=")
         IN  IF Len(parts) # 3 THEN Raise("ValueError", "filter format")
             ELSE IF Strip(parts[2]) \notin DOMAIN operator_map
             THEN Raise("ValueError", "unsupported operator")
             ELSE Return(<<Strip(parts[1]), operator_map[Strip(parts[2])],
                           Strip(parts[3])>>)

parse_filter(filter_str) ==
    IF Falsy(filter_str) THEN Return(<<None, None, None>>)
    ELSE LET parts == Split(filter_str, "=")
         IN  IF Len(parts) # 3 THEN Raise("ValueError", "filter format")
             ELSE IF parts[2] \notin DOMAIN operator_map
             THEN Raise("ValueError", "unsupported operator")
             ELSE Return(<<Strip(parts[1]), operator_map[parts[2]],
                           Strip(parts[3])>>)

parse_aggregation(agg_str) ==
    IF Falsy(agg_str) THEN Return(<<None, None>>)
    ELSE LET parts == Split(agg_str, "=")
         IN  IF Len(parts) # 2 THEN Raise("ValueError", "aggregation format")
             ELSE Return(<<Strip(parts[1]), Lower(Strip(parts[2]))>>)

\* ------------------------------------------ calls of the parsers, alone
\* the characters of the strings handed to the parsers
SpecChars == {"=", ">", "e", "q", " ", "p"}

\* column and value segments without '=' for strings built on the grammar
SegmentSamples == {<<>>, <<"p">>, <<" ", "p", " ">>}

\* column=token=value for every token of the alias table
GrammarStrings ==
    {c \o <<"=">> \o t \o <<"=">> \o v :
        c \in SegmentSamples, t \in OperatorTokens, v \in SegmentSamples}

InitParse ==
    /\ pc = "ready"
    /\ data = <<>>
    /\ call \in [fn : {"input"},
                 text : SeqsUpTo(SpecChars, MaxLen) \cup GrammarStrings]
    /\ outcome = None
    /\ stdout = <<>>
    /\ stderr = <<>>
    /\ exit_status = {}
    /\ calls = <<>>

CallParseFilter ==
    /\ pc = "ready"
    /\ call' = [fn |-> "parse_filter", text |-> call.text]
    /\ outcome' = parse_filter(call.text)
    /\ pc' = "returned"
    /\ UNCHANGED <<data, stdout, stderr, exit_status, calls>>

CallParseAggregation ==
    /\ pc = "ready"
    /\ call' = [fn |-> "parse_aggregation", text |-> call.text]
    /\ outcome' = parse_aggregation(call.text)
    /\ pc' = "returned"
    /\ UNCHANGED <<data, stdout, stderr, exit_status, calls>>

NextParse == CallParseFilter \/ CallParseAggregation

SpecParse == InitParse /\ [][NextParse]_vars

\* ------------------------------------------------ claims on the parsers
ParseFilterReturned == pc = "returned" /\ call.fn = "parse_filter"

\* the places of '=' in the string of the call
Separators == {i \in 1..Len(call.text) : call.text[i] = "="}

\* the string of the call is column=token=value with this token and a
\* column and a value that hold no '='
BuiltOnToken(t) ==
    \E c \in SegmentSamples, v \in SegmentSamples :
        call.text = c \o <<"=">> \o t \o <<"=">> \o v

\* C4: for every token of the alias table and every column and value
\* without '=', parse_filter of column=token=value succeeds and returns the
\* canonical operator of the token.
C4_EveryAliasTokenParses ==
    ParseFilterReturned
    => /\ \A t \in {<<"=","=">>, EQ} :
             BuiltOnToken(t) => outcome.kind = "return" /\ outcome.value[2] = EQ
       /\ \A t \in {<<">">>, GT, <<">","=">>} :
             BuiltOnToken(t) => outcome.kind = "return" /\ outcome.value[2] = GT
       /\ \A t \in {<<"<">>, LT, <<"<","=">>} :
             BuiltOnToken(t) => outcome.kind = "return" /\ outcome.value[2] = LT

\* t is seg without its leading and trailing whitespace
IsTrimOf(t, seg) ==
    \E a \in 1..(Len(seg) + 1), b \in 0..Len(seg) :
        /\ a <= b + 1
        /\ t = SubSeq(seg, a, b)
        /\ \A i \in 1..(a - 1) : seg[i] \in Whitespace
        /\ \A i \in (b + 1)..Len(seg) : seg[i] \in Whitespace
        /\ a <= b => (seg[a] \notin Whitespace /\ seg[b] \notin Whitespace)

\* C5: parse_filter returns the no-filter triple exactly for the empty
\* string; else the format error exactly when '=' does not cut the string
\* in 3; else the unsupported-operator error exactly when the middle
\* segment is no alias token; else the trimmed column, an operator among
\* eq, gt, lt and the trimmed value.
C5_ParseFilterAllOrNothing ==
    ParseFilterReturned
    => LET s  == call.text
           i1 == CHOOSE i \in Separators : \A j \in Separators : i <= j
           i2 == CHOOSE i \in Separators : \A j \in Separators : i >= j
           middle == SubSeq(s, i1 + 1, i2 - 1)
       IN  /\ (outcome = Return(<<None, None, None>>)) <=> (s = <<>>)
           /\ s # <<>> =>
                /\ (outcome = Raise("ValueError", "filter format"))
                      <=> (Cardinality(Separators) # 2)
                /\ Cardinality(Separators) = 2 =>
                     /\ (outcome = Raise("ValueError", "unsupported operator"))
                           <=> (middle \notin OperatorTokens)
                     /\ middle \in OperatorTokens =>
                          /\ outcome.kind = "return"
                          /\ IsTrimOf(outcome.value[1], SubSeq(s, 1, i1 - 1))
                          /\ outcome.value[2] \in {EQ, GT, LT}
                          /\ IsTrimOf(outcome.value[3], SubSeq(s, i2 + 1, Len(s)))
           /\ outcome.kind = "return" =>
                (outcome.value[2] = None \/ outcome.value[2] \in {EQ, GT, LT})

\* C5 witness: a column and a value with blanks around them are returned
\* trimmed, with the operator of the token.
C5_Witness ==
    /\ ParseFilterReturned
    /\ call.text = <<" ", "p", " ", "=", ">", "=", " ", "p", " ">>
    /\ outcome = Return(<<(<<"p">>), GT, (<<"p">>)>>)

\* ----------------------------------------------------------------- main
\* read_csv on a file that is missing, that cannot be read, or that holds
\* the rows file.rows
read_csv(file) ==
    CASE file.state = "missing" -> Raise("FileNotFoundError", "file not found")
      [] file.state = "unreadable" -> Raise("Exception", "read error")
      [] file.state = "ok" -> Return(file.rows)

\* what display_table prints
display_table(d) ==
    IF d = <<>> THEN [kind |-> "message", text |-> "no data to display"]
    ELSE [kind |-> "table", rows |-> d]

\* what display_aggregation_result prints
display_aggregation_result(column, function, result) ==
    [kind |-> "aggregation", column |-> column, function |-> function,
     result |-> result]

\* the except clause of main: one line on the error stream, exit status 1
Fail(e, log) ==
    /\ stderr' = Append(stderr, e)
    /\ exit_status' = {1}
    /\ pc' = "done"
    /\ calls' = log
    /\ UNCHANGED <<data, call, outcome, stdout>>

\* main returns after printing item: exit status 0
Finish(item, d, log) ==
    /\ stdout' = Append(stdout, item)
    /\ exit_status' = {0}
    /\ pc' = "done"
    /\ data' = d
    /\ calls' = log
    /\ UNCHANGED <<call, outcome, stderr>>

\* the read step going on to the filter step with whatever was read
MainRead_no_empty_check ==
    /\ pc = "start"
    /\ LET r   == read_csv(call.file)
           log == Append(calls, [fn |-> "read_csv", outcome |-> r])
       IN  IF r.kind = "raise" THEN Fail(r, log)
           ELSE /\ data' = r.value
                /\ pc' = "filter"
                /\ calls' = log
                /\ UNCHANGED <<call, outcome, stdout, stderr, exit_status>>

\* main, lines 255-259: read the file; an empty source ends the run
MainRead ==
    /\ pc = "start"
    /\ LET r   == read_csv(call.file)
           log == Append(calls, [fn |-> "read_csv", outcome |-> r])
       IN  IF r.kind = "raise" THEN Fail(r, log)
           ELSE IF r.value = <<>>
           THEN Finish([kind |-> "message", text |-> "empty file"], r.value, log)
           ELSE /\ data' = r.value
                /\ pc' = "filter"
                /\ calls' = log
                /\ UNCHANGED <<call, outcome, stdout, stderr, exit_status>>

\* main, lines 262-268: the optional filter; no match ends the run
MainFilter ==
    /\ pc = "filter"
    /\ IF Falsy(call.filter)
       THEN /\ pc' = "output"
            /\ UNCHANGED <<data, call, outcome, stdout, stderr, exit_status, calls>>
       ELSE LET pf   == parse_filter(call.filter)
                log1 == Append(calls, [fn |-> "parse_filter", outcome |-> pf])
            IN  IF pf.kind = "raise" THEN Fail(pf, log1)
                ELSE LET fd   == filter_data(data, pf.value[1], pf.value[2],
                                             pf.value[3])
                         log2 == Append(log1,
                                     [fn |-> "filter_data", data |-> data,
                                      operator |-> pf.value[2], outcome |-> fd])
                     IN  IF fd.kind = "raise" THEN Fail(fd, log2)
                         ELSE IF fd.value = <<>>
                         THEN Finish([kind |-> "message", text |-> "no match"],
                                     fd.value, log2)
                         ELSE /\ data' = fd.value
                              /\ pc' = "output"
                              /\ calls' = log2
                              /\ UNCHANGED <<call, outcome, stdout, stderr,
                                             exit_status>>

\* the output step printing the table before it aggregates
MainOutput_table_first ==
    /\ pc = "output"
    /\ IF Falsy(call.aggregate)
       THEN Finish(display_table(data), data, calls)
       ELSE LET pa   == parse_aggregation(call.aggregate)
                log1 == Append(calls, [fn |-> "parse_aggregation", outcome |-> pa])
            IN  IF pa.kind = "raise" THEN Fail(pa, log1)
                ELSE LET ad   == aggregate_data(data, pa.value[1], pa.value[2])
                         log2 == Append(log1,
                                     [fn |-> "aggregate_data", data |-> data,
                                      outcome |-> ad])
                     IN  IF ad.kind = "raise"
                         THEN /\ stdout' = Append(stdout, display_table(data))
                              /\ stderr' = Append(stderr, ad)
                              /\ exit_status' = {1}
                              /\ pc' = "done"
                              /\ calls' = log2
                              /\ UNCHANGED <<data, call, outcome>>
                         ELSE Finish(display_aggregation_result(
                                         pa.value[1], pa.value[2], ad.value),
                                     data, log2)

\* main, lines 271-277: the aggregation result, or else the table
MainOutput ==
    /\ pc = "output"
    /\ IF Falsy(call.aggregate)
       THEN Finish(display_table(data), data, calls)
       ELSE LET pa   == parse_aggregation(call.aggregate)
                log1 == Append(calls, [fn |-> "parse_aggregation", outcome |-> pa])
            IN  IF pa.kind = "raise" THEN Fail(pa, log1)
                ELSE LET ad   == aggregate_data(data, pa.value[1], pa.value[2])
                         log2 == Append(log1,
                                     [fn |-> "aggregate_data", data |-> data,
                                      outcome |-> ad])
                     IN  IF ad.kind = "raise" THEN Fail(ad, log2)
                         ELSE Finish(display_aggregation_result(
                                         pa.value[1], pa.value[2], ad.value),
                                     data, log2)

\* the sources: a missing file, an unreadable one, and every file of at
\* most MaxFileRows rows under the header
Files ==
    {[state |-> "missing", rows |-> <<>>], [state |-> "unreadable", rows |-> <<>>]}
    \cup [state : {"ok"}, rows : SeqsUpTo(Rows, MaxFileRows)]

\* --filter: absent, empty, b=eq=a, p=>=1, r=eq=a, p=ne=1, p=1
FilterOptions ==
    {None, <<>>,
     <<"b","=","e","q","=","a">>,
     <<"p","=",">","=","1">>,
     <<"r","=","e","q","=","a">>,
     <<"p","=","n","e","=","1">>,
     <<"p","=","1">>}

\* --aggregate: absent, empty, p=avg, p=MAX, b=min, r=avg, p=sum, p
AggregateOptions ==
    {None, <<>>,
     <<"p","=","a","v","g">>,
     <<"p","=","M","A","X">>,
     <<"b","=","m","i","n">>,
     <<"r","=","a","v","g">>,
     <<"p","=","s","u","m">>,
     <<"p">>}

InitMain ==
    /\ pc = "start"
    /\ data = <<>>
    /\ call \in [fn : {"main"}, file : Files, filter : FilterOptions,
                 aggregate : AggregateOptions]
    /\ outcome = None
    /\ stdout = <<>>
    /\ stderr = <<>>
    /\ exit_status = {}
    /\ calls = <<>>

NextMain == MainRead \/ MainFilter \/ MainOutput

SpecMain == InitMain /\ [][NextMain]_vars

\* --------------------------------------------------- claims on main
Raised == {i \in 1..Len(calls) : calls[i].outcome.kind = "raise"}

\* what a run has printed and how it has ended, at any moment
RunOutcome ==
    /\ pc = "done" =>
         /\ \/ exit_status = {0} /\ Len(stdout) = 1 /\ stderr = <<>>
            \/ exit_status = {1} /\ Len(stderr) = 1 /\ stdout = <<>>
         /\ exit_status = {1} <=> Raised # {}
         /\ exit_status = {1} => stderr = <<calls[Len(calls)].outcome>>
    /\ pc # "done" =>
         /\ exit_status = {} /\ stdout = <<>> /\ stderr = <<>>
         /\ Raised = {}

\* how far main has come
Stage(p) ==
    CASE p = "start" -> 0 [] p = "filter" -> 1 [] p = "output" -> 2 [] p = "done" -> 3

\* C9: a run of main only moves forward, from reading to filtering to the
\* output to its end, and it ends either with status 0 after printing one
\* message or one rendering and nothing on the error stream, or with status
\* 1 after one line on the error stream and nothing rendered; it ends with
\* status 1 exactly when a reader, parser or engine call raised.
C9_OneOutcomePerRun == []RunOutcome /\ [][Stage(pc') > Stage(pc)]_vars

\* C9 witness: the filter kept rows, then the aggregation raised: status 1,
\* one line on the error stream, nothing rendered.
C9_Witness ==
    /\ pc = "done" /\ exit_status = {1}
    /\ Len(calls) = 5
    /\ calls[3].fn = "filter_data" /\ calls[3].outcome.kind = "return"
    /\ calls[5].fn = "aggregate_data" /\ calls[5].outcome.kind = "raise"
    /\ stdout = <<>> /\ Len(stderr) = 1

\* C10: main calls filter_data and aggregate_data on a non-empty dataset
\* only, and filter_data with a registered operator only, so neither call
\* hits the first-row access on an empty list, the unsupported-operator
\* error of filter_data or the empty-dataset 0.0; when the filter matched
\* no row the run ends with status 0 without parsing the aggregation string.
C10_EngineCalledOnRowsOnly ==
    /\ \A i \in 1..Len(calls) :
          /\ calls[i].fn \in {"filter_data", "aggregate_data"}
                => calls[i].data # <<>>
          /\ calls[i].fn = "filter_data"
                => /\ calls[i].operator \in operators
                   /\ calls[i].outcome # Raise("IndexError", "list index out of range")
                   /\ calls[i].outcome # Raise("ValueError", "unsupported operator")
          /\ (calls[i].fn = "filter_data" /\ calls[i].outcome = Return(<<>>))
                => /\ i = Len(calls)
                   /\ pc = "done" /\ exit_status = {0}
                   /\ stdout = <<[kind |-> "message", text |-> "no match"]>>
    /\ (pc = "done" /\ call.file.state = "ok" /\ call.file.rows = <<>>)
          => /\ Len(calls) = 1
             /\ exit_status = {0}
             /\ stdout = <<[kind |-> "message", text |-> "empty file"]>>

\* C10 witness: the filter matched no row and the aggregation string is
\* malformed: the run ends with status 0 and the string was never parsed.
C10_Witness ==
    /\ pc = "done" /\ exit_status = {0}
    /\ call.aggregate = <<"p">>
    /\ Len(calls) = 3
    /\ calls[3].fn = "filter_data" /\ calls[3].outcome = Return(<<>>)

====
